---- MODULE Spec2Model ----
(***************************************************************************)
(* Model of skf-vfx-tools:                                                 *)
(*   bin/batch_exr_to_editorial.py   (sequence scan, slate check, two-stage *)
(*                                    encode, batch loop, exit status)     *)
(*   bin/dng_to_exr_full_metadata.py (attribute rewrite, batch loop)       *)
(*                                                                         *)
(* Strings are modelled as sequences of one-character strings so that the  *)
(* regular expressions, str.replace, str.startswith, the zero-padded       *)
(* format and the lexicographic sort are computed character by character.  *)
(***************************************************************************)
EXTENDS Integers, Sequences, FiniteSets, TLC

VARIABLES
    entry,          \* which entry point runs: "editorial" or "archival"
    pc,             \* position of the single control thread
    tree,           \* input tree as os.walk lists it: sequence of [dir, name]
    shot_filter,    \* args.shot (<<>> when not given)
    dry_run,        \* args.dry_run
    sequences,      \* result of find_exr_sequences
    idx,            \* number of items of the batch loop already entered
    success_count,  \* editorial main: success_count
    fail_count,     \* editorial main: fail_count
    temp_dirs,      \* scratch directories that exist on disk
    outputs,        \* output files that exist on disk (shot names)
    calls,          \* per item: tool invocations and the item's result
    dng_files,      \* archival main: number of DNG files found
    processed,      \* archival main: processed
    failed,         \* archival main: failed
    exit_status,    \* process exit status (-1 while running)
    in_attribs,     \* in_spec.extra_attribs: sequence of [name, type, value]
    out_attribs,    \* out_spec.extra_attribs
    compression_level,
    k,              \* copy loop: number of source attributes already copied
    rpc             \* position inside convert_dng_to_exr

batchVars == <<entry, pc, tree, shot_filter, dry_run, sequences, idx,
               success_count, fail_count, temp_dirs, outputs, calls,
               dng_files, processed, failed, exit_status>>
rewriteVars == <<in_attribs, out_attribs, compression_level, k, rpc>>
vars == <<batchVars, rewriteVars>>

-----------------------------------------------------------------------------
(* Bounds of the model *)

\* at most this many files in the scanned tree
MaxFiles == 3
\* at most this many DNG files in the archival input directory
MaxDng == 3
\* at most this many attributes in a source frame
MaxAttrs == 3

-----------------------------------------------------------------------------
(* Characters and strings *)

Digits == {"0", "1", "2", "3", "4", "5", "6", "7", "8", "9"}

DigitVal(c) ==
    CASE c = "0" -> 0 [] c = "1" -> 1 [] c = "2" -> 2 [] c = "3" -> 3
      [] c = "4" -> 4 [] c = "5" -> 5 [] c = "6" -> 6 [] c = "7" -> 7
      [] c = "8" -> 8 [] c = "9" -> 9

DigitChar(d) ==
    CASE d = 0 -> "0" [] d = 1 -> "1" [] d = 2 -> "2" [] d = 3 -> "3"
      [] d = 4 -> "4" [] d = 5 -> "5" [] d = 6 -> "6" [] d = 7 -> "7"
      [] d = 8 -> "8" [] d = 9 -> "9"

\* code point of a character (the order str comparison uses)
Ord(c) ==
    CASE c \in Digits -> 48 + DigitVal(c)
      [] c = "." -> 46
      [] c = "_" -> 95
      [] c = "e" -> 101
      [] c = "g" -> 103
      [] c = "n" -> 110
      [] c = "p" -> 112
      [] c = "r" -> 114
      [] c = "s" -> 115
      [] c = "x" -> 120

Min(a, b) == IF a <= b THEN a ELSE b

\* str.endswith
EndsWith(f, suf) ==
    /\ Len(f) >= Len(suf)
    /\ SubSeq(f, Len(f) - Len(suf) + 1, Len(f)) = suf

\* str.startswith
StartsWith(f, pre) ==
    /\ Len(f) >= Len(pre)
    /\ SubSeq(f, 1, Len(pre)) = pre

\* sub in f
Contains(f, sub) ==
    \E i \in 1..(Len(f) - Len(sub) + 1) : SubSeq(f, i, i + Len(sub) - 1) = sub

\* a < b for str
LexLess(a, b) ==
    \E i \in 1..(Min(Len(a), Len(b)) + 1) :
        /\ \A j \in 1..(i - 1) : a[j] = b[j]
        /\ \/ i > Len(a) /\ i <= Len(b)
           \/ i <= Len(a) /\ i <= Len(b) /\ Ord(a[i]) < Ord(b[i])

RECURSIVE DigitsToInt(_)
\* int(digits)
DigitsToInt(s) ==
    IF s = <<>> THEN 0
    ELSE DigitsToInt(SubSeq(s, 1, Len(s) - 1)) * 10 + DigitVal(s[Len(s)])

RECURSIVE IntToDigits(_)
\* str(n), n >= 0
IntToDigits(n) ==
    IF n < 10 THEN <<DigitChar(n)>>
    ELSE Append(IntToDigits(n \div 10), DigitChar(n % 10))

\* f"{n:0{w}d}": zero-filled to at least w characters, never truncated
ZeroPad(n, w) ==
    LET d == IntToDigits(n)
    IN  IF Len(d) >= w THEN d
        ELSE [i \in 1..(w - Len(d)) |-> "0"] \o d

RECURSIVE RStrip(_, _)
\* str.rstrip(c)
RStrip(s, c) ==
    IF s # <<>> /\ s[Len(s)] = c THEN RStrip(SubSeq(s, 1, Len(s) - 1), c) ELSE s

-----------------------------------------------------------------------------
(* Sequence detection *)

SLATE_FRAME == 1000

DotExr == <<".", "e", "x", "r">>

None == <<>>

\* position of the last "." of f, 0 when there is none
LastDot(f) ==
    IF \E i \in 1..Len(f) : f[i] = "."
    THEN CHOOSE i \in 1..Len(f) :
            f[i] = "." /\ \A j \in (i + 1)..Len(f) : f[j] # "."
    ELSE 0

\* whether (\d+)(\.[^.]+)$ matches somewhere in f
FrameMatch(f) ==
    LET p == LastDot(f)
    IN  p > 1 /\ p < Len(f) /\ f[p - 1] \in Digits

\* where the leftmost match of \d+(\.[^.]+)$ starts
MatchStart(f) ==
    LET p == LastDot(f)
    IN  CHOOSE i \in 1..(p - 1) :
            /\ \A j \in i..(p - 1) : f[j] \in Digits
            /\ i = 1 \/ f[i - 1] \notin Digits

detect_sequence_padding(f) ==
    IF FrameMatch(f)
    THEN <<LastDot(f) - MatchStart(f), SubSeq(f, LastDot(f), Len(f))>>
    ELSE None

\* re.sub(r'\d+(\.[^.]+)$', '', f)
HeadOf(f) ==
    IF FrameMatch(f) THEN SubSeq(f, 1, MatchStart(f) - 1) ELSE f

\* int(re.search(r'(\d+)\.[^.]+$', f).group(1))
FrameOf(f) == DigitsToInt(SubSeq(f, MatchStart(f), LastDot(f) - 1))

\* the files loop of one directory keeps f
Accepted(f, filter) ==
    /\ EndsWith(f, DotExr)
    /\ ~(filter # <<>> /\ ~Contains(f, filter))
    /\ detect_sequence_padding(f) # None

KeyOf(f) ==
    LET pe == detect_sequence_padding(f)
    IN  <<HeadOf(f), pe[2], pe[1]>>

\* candidates.setdefault(key, []).append(f) on an insertion-ordered dict
SetDefaultAppend(cands, key, f) ==
    IF \E i \in 1..Len(cands) : cands[i].key = key
    THEN [i \in 1..Len(cands) |->
            IF cands[i].key = key
            THEN [cands[i] EXCEPT !.files = Append(@, f)]
            ELSE cands[i]]
    ELSE Append(cands, [key |-> key, files |-> <<f>>])

RECURSIVE Candidates(_, _)
\* the candidates dict after the files loop over the listing `files`
Candidates(files, filter) ==
    IF files = <<>> THEN <<>>
    ELSE LET rest == Candidates(SubSeq(files, 1, Len(files) - 1), filter)
             f    == files[Len(files)]
         IN  IF Accepted(f, filter)
             THEN SetDefaultAppend(rest, KeyOf(f), f)
             ELSE rest

RECURSIVE InsertSorted(_, _)
InsertSorted(x, s) ==
    IF s = <<>> THEN <<x>>
    ELSE IF LexLess(x, s[1]) THEN <<x>> \o s
    ELSE <<s[1]>> \o InsertSorted(x, Tail(s))

\* mutant of SortFiles: the listing order is kept, the sort is missing
SortFilesMissing(s) == s

RECURSIVE SortFiles(_)
\* seq_files.sort()
SortFiles(s) ==
    IF s = <<>> THEN <<>>
    ELSE InsertSorted(s[Len(s)], SortFiles(SubSeq(s, 1, Len(s) - 1)))

\* the dict appended for one candidates entry
SequenceRecord(dirpath, cand) ==
    LET seq_files == SortFiles(cand.files)
    IN  [dir   |-> dirpath,
         head  |-> cand.key[1],
         ext   |-> cand.key[2],
         pad   |-> cand.key[3],
         start |-> FrameOf(seq_files[1]),
         end   |-> FrameOf(seq_files[Len(seq_files)]),
         count |-> Len(seq_files)]

\* names of the files of dirpath, in listing order
RECURSIVE FilesIn(_, _)
FilesIn(t, dirpath) ==
    IF t = <<>> THEN <<>>
    ELSE IF t[1].dir = dirpath
         THEN <<t[1].name>> \o FilesIn(Tail(t), dirpath)
         ELSE FilesIn(Tail(t), dirpath)

\* directories in the order os.walk visits them (top down)
Dirs == <<"root", "sub">>

SequencesOfDir(t, dirpath, filter) ==
    LET cands == Candidates(FilesIn(t, dirpath), filter)
    IN  [i \in 1..Len(cands) |-> SequenceRecord(dirpath, cands[i])]

find_exr_sequences(t, filter) ==
    SequencesOfDir(t, Dirs[1], filter) \o SequencesOfDir(t, Dirs[2], filter)

-----------------------------------------------------------------------------
(* Editorial entry point: encode_sequence and main *)

\* os.path.exists(path) for a path of the input tree
Exists(t, path) == \E i \in 1..Len(t) : t[i] = path

\* mutant of slate_frame_path: the sequence's first frame is looked up
slate_frame_path_first(seq_info) ==
    [dir  |-> seq_info.dir,
     name |-> seq_info.head \o ZeroPad(seq_info.start, seq_info.pad) \o seq_info.ext]

\* str(seq_info['dir'] / f"{head}{SLATE_FRAME:0{pad}d}{ext}")
slate_frame_path(seq_info) ==
    [dir  |-> seq_info.dir,
     name |-> seq_info.head \o ZeroPad(SLATE_FRAME, seq_info.pad) \o seq_info.ext]

\* seq['head'].rstrip('.').rstrip('_'), which names the output file
shot_name(seq) == RStrip(RStrip(seq.head, "."), "_")

\* mutant of RemoveTree: the scratch directory is left behind
RemoveTreeSkipped(dirs, d) == dirs

\* shutil.rmtree(temp_dir, ignore_errors=True) in the finally block
RemoveTree(dirs, d) == dirs \ {d}

\* mutant of EncodeResult: the encoder's exit code alone decides
EncodeResultExitCodeOnly(rc, output_exists) == rc = 0

\* the value encode_sequence returns after the encoder has run
EncodeResult(rc, output_exists) ==
    IF rc # 0 THEN FALSE ELSE output_exists

NoCall == -1

NewCall ==
    [color |-> 0, color_rc |-> NoCall, ffmpeg |-> 0, ffmpeg_rc |-> NoCall,
     temp |-> FALSE, passed |-> FALSE, result |-> "pending"]

\* the item the batch loop is at
Current == sequences[idx]

\* main counts the value encode_sequence (or convert_dng_to_exr) returned
Returned(ok) ==
    /\ calls' = [calls EXCEPT ![idx].result = IF ok THEN "ok" ELSE "failed"]
    /\ success_count' = IF ok THEN success_count + 1 ELSE success_count
    /\ fail_count' = IF ok THEN fail_count ELSE fail_count + 1
    /\ pc' = "loop"
    /\ UNCHANGED exit_status

\* an exception leaves encode_sequence and main; the interpreter exits 1
Raised ==
    /\ calls' = [calls EXCEPT ![idx].result = "raised"]
    /\ pc' = "crashed"
    /\ exit_status' = 1
    /\ UNCHANGED <<success_count, fail_count>>

Scan ==
    /\ entry = "editorial"
    /\ pc = "scan"
    /\ sequences' = find_exr_sequences(tree, shot_filter)
    /\ IF sequences' = <<>>
       THEN pc' = "no_items" /\ exit_status' = 0
       ELSE pc' = "loop" /\ UNCHANGED exit_status
    /\ UNCHANGED <<entry, tree, shot_filter, dry_run, idx, success_count,
                   fail_count, temp_dirs, outputs, calls, dng_files,
                   processed, failed, rewriteVars>>

NextSequence ==
    /\ entry = "editorial"
    /\ pc = "loop"
    /\ idx < Len(sequences)
    /\ idx' = idx + 1
    /\ calls' = Append(calls, NewCall)
    /\ pc' = "slate"
    /\ UNCHANGED <<entry, tree, shot_filter, dry_run, sequences,
                   success_count, fail_count, temp_dirs, outputs, dng_files,
                   processed, failed, exit_status, rewriteVars>>

SlateMissing ==
    /\ pc = "slate"
    /\ ~Exists(tree, slate_frame_path(Current))
    /\ Returned(FALSE)
    /\ UNCHANGED <<entry, tree, shot_filter, dry_run, sequences, idx,
                   temp_dirs, outputs, dng_files, processed, failed,
                   rewriteVars>>

DryRun ==
    /\ pc = "slate"
    /\ Exists(tree, slate_frame_path(Current))
    /\ dry_run
    /\ calls' = [calls EXCEPT ![idx].passed = TRUE, ![idx].result = "ok"]
    /\ success_count' = success_count + 1
    /\ pc' = "loop"
    /\ UNCHANGED <<entry, tree, shot_filter, dry_run, sequences, idx,
                   fail_count, temp_dirs, outputs, dng_files, processed,
                   failed, exit_status, rewriteVars>>

MakeTempDir ==
    /\ pc = "slate"
    /\ Exists(tree, slate_frame_path(Current))
    /\ ~dry_run
    /\ temp_dirs' = temp_dirs \cup {idx}
    /\ calls' = [calls EXCEPT ![idx].passed = TRUE, ![idx].temp = TRUE]
    /\ pc' = "color"
    /\ UNCHANGED <<entry, tree, shot_filter, dry_run, sequences, idx,
                   success_count, fail_count, outputs, dng_files, processed,
                   failed, exit_status, rewriteVars>>

\* os.makedirs or tempfile.mkdtemp raises (before the try block)
MakeTempDirRaises ==
    /\ pc = "slate"
    /\ Exists(tree, slate_frame_path(Current))
    /\ ~dry_run
    /\ calls' = [calls EXCEPT ![idx].passed = TRUE, ![idx].result = "raised"]
    /\ pc' = "crashed"
    /\ exit_status' = 1
    /\ UNCHANGED <<entry, tree, shot_filter, dry_run, sequences, idx,
                   success_count, fail_count, temp_dirs, outputs, dng_files,
                   processed, failed, rewriteVars>>

ColorStage ==
    /\ pc = "color"
    /\ \E rc \in {0, 1} :
        IF rc # 0
        THEN /\ temp_dirs' = RemoveTree(temp_dirs, idx)
             /\ calls' = [calls EXCEPT ![idx].color = @ + 1,
                                       ![idx].color_rc = rc,
                                       ![idx].result = "failed"]
             /\ fail_count' = fail_count + 1
             /\ pc' = "loop"
        ELSE /\ calls' = [calls EXCEPT ![idx].color = @ + 1,
                                       ![idx].color_rc = rc]
             /\ pc' = "encode"
             /\ UNCHANGED <<temp_dirs, fail_count>>
    /\ UNCHANGED <<entry, tree, shot_filter, dry_run, sequences, idx,
                   success_count, outputs, dng_files, processed, failed,
                   exit_status, rewriteVars>>

\* subprocess.run raises (oiiotool cannot be started); finally, then propagate
ColorStageRaises ==
    /\ pc = "color"
    /\ temp_dirs' = RemoveTree(temp_dirs, idx)
    /\ Raised
    /\ UNCHANGED <<entry, tree, shot_filter, dry_run, sequences, idx,
                   outputs, dng_files, processed, failed, rewriteVars>>

EncodeStage ==
    /\ pc = "encode"
    /\ \E rc \in {0, 1}, written \in BOOLEAN :
        LET out == shot_name(Current)
            now == IF rc = 0 /\ written THEN outputs \cup {out} ELSE outputs
            ok  == EncodeResult(rc, out \in now)
        IN  /\ outputs' = now
            /\ temp_dirs' = RemoveTree(temp_dirs, idx)
            /\ calls' = [calls EXCEPT ![idx].ffmpeg = @ + 1,
                                      ![idx].ffmpeg_rc = rc,
                                      ![idx].result =
                                           IF ok THEN "ok" ELSE "failed"]
            /\ success_count' = IF ok THEN success_count + 1 ELSE success_count
            /\ fail_count' = IF ok THEN fail_count ELSE fail_count + 1
            /\ pc' = "loop"
    /\ UNCHANGED <<entry, tree, shot_filter, dry_run, sequences, idx,
                   dng_files, processed, failed, exit_status, rewriteVars>>

\* os.makedirs(output dir) or subprocess.run raises; finally, then propagate
EncodeStageRaises ==
    /\ pc = "encode"
    /\ temp_dirs' = RemoveTree(temp_dirs, idx)
    /\ Raised
    /\ UNCHANGED <<entry, tree, shot_filter, dry_run, sequences, idx,
                   outputs, dng_files, processed, failed, rewriteVars>>

Summary ==
    /\ entry = "editorial"
    /\ pc = "loop"
    /\ idx = Len(sequences)
    /\ exit_status' = IF fail_count = 0 THEN 0 ELSE 1
    /\ pc' = "done"
    /\ UNCHANGED <<entry, tree, shot_filter, dry_run, sequences, idx,
                   success_count, fail_count, temp_dirs, outputs, calls,
                   dng_files, processed, failed, rewriteVars>>

-----------------------------------------------------------------------------
(* Archival entry point: main of dng_to_exr_full_metadata.py *)

\* what one call of convert_dng_to_exr can do
ConvertOutcomes == {"ok", "read_error", "write_error", "exception"}

\* the success flag convert_dng_to_exr returns: every exception is caught
ConvertSuccess(outcome) == outcome = "ok"

NoDngFiles ==
    /\ entry = "archival"
    /\ pc = "glob"
    /\ dng_files = 0
    /\ exit_status' = 1
    /\ pc' = "no_items"
    /\ UNCHANGED <<entry, tree, shot_filter, dry_run, sequences, idx,
                   success_count, fail_count, temp_dirs, outputs, calls,
                   dng_files, processed, failed, rewriteVars>>

StartConversion ==
    /\ entry = "archival"
    /\ pc = "glob"
    /\ dng_files > 0
    /\ pc' = "loop"
    /\ UNCHANGED <<entry, tree, shot_filter, dry_run, sequences, idx,
                   success_count, fail_count, temp_dirs, outputs, calls,
                   dng_files, processed, failed, exit_status, rewriteVars>>

ConvertFile ==
    /\ entry = "archival"
    /\ pc = "loop"
    /\ idx < dng_files
    /\ \E outcome \in ConvertOutcomes :
        LET success == ConvertSuccess(outcome)
        IN  /\ processed' = IF success THEN processed + 1 ELSE processed
            /\ failed' = IF success THEN failed ELSE failed + 1
            /\ calls' = Append(calls,
                    [NewCall EXCEPT !.result = IF success THEN "ok" ELSE "failed"])
    /\ idx' = idx + 1
    /\ UNCHANGED <<entry, pc, tree, shot_filter, dry_run, sequences,
                   success_count, fail_count, temp_dirs, outputs, dng_files,
                   exit_status, rewriteVars>>

\* the summary is printed and main returns None: the script ends with status 0
ArchiveSummary ==
    /\ entry = "archival"
    /\ pc = "loop"
    /\ idx = dng_files
    /\ exit_status' = 0
    /\ pc' = "done"
    /\ UNCHANGED <<entry, tree, shot_filter, dry_run, sequences, idx,
                   success_count, fail_count, temp_dirs, outputs, calls,
                   dng_files, processed, failed, rewriteVars>>

-----------------------------------------------------------------------------
(* Inputs *)

\* the files a scanned tree is drawn from
Pool ==
    { [dir |-> "root", name |-> <<"s",".","1","0","0","0",".","e","x","r">>],
      [dir |-> "root", name |-> <<"s",".","0","9","9","9",".","e","x","r">>],
      [dir |-> "root", name |-> <<"s",".","1","0","0","1",".","e","x","r">>],
      [dir |-> "root", name |-> <<"s",".","9","9","9",".","e","x","r">>],
      [dir |-> "root", name |-> <<"s","_","1","0","0","0",".","e","x","r">>],
      [dir |-> "root", name |-> <<"s",".","e","x","r">>],
      [dir |-> "root", name |-> <<"s",".","1","0","0","0",".","p","n","g">>],
      [dir |-> "sub",  name |-> <<"s",".","1","0","0","0",".","e","x","r">>] }

\* the values of --shot: not given, or a substring
Filters == { <<>>, <<"0","9","9","9">> }

\* listings of at most MaxFiles distinct files, in any order
Trees ==
    { t \in UNION { [1..n -> Pool] : n \in 0..MaxFiles } :
        \A i, j \in 1..Len(t) : i # j => t[i] # t[j] }

RewriteIdle ==
    /\ in_attribs = <<>>
    /\ out_attribs = <<>>
    /\ compression_level = 45
    /\ k = 0
    /\ rpc = "idle"

Init ==
    /\ entry \in {"editorial", "archival"}
    /\ IF entry = "editorial"
       THEN /\ pc = "scan"
            /\ tree \in Trees
            /\ shot_filter \in Filters
            /\ dry_run \in BOOLEAN
            /\ dng_files = 0
       ELSE /\ pc = "glob"
            /\ tree = <<>>
            /\ shot_filter = <<>>
            /\ dry_run = FALSE
            /\ dng_files \in 0..MaxDng
    /\ sequences = <<>>
    /\ idx = 0
    /\ success_count = 0
    /\ fail_count = 0
    /\ temp_dirs = {}
    /\ outputs = {}
    /\ calls = <<>>
    /\ processed = 0
    /\ failed = 0
    /\ exit_status = -1
    /\ RewriteIdle

Next ==
    \/ Scan
    \/ NextSequence
    \/ SlateMissing
    \/ DryRun
    \/ MakeTempDir
    \/ MakeTempDirRaises
    \/ ColorStage
    \/ ColorStageRaises
    \/ EncodeStage
    \/ EncodeStageRaises
    \/ Summary
    \/ NoDngFiles
    \/ StartConversion
    \/ ConvertFile
    \/ ArchiveSummary

Spec == Init /\ [][Next]_vars

\* the scan alone: find_exr_sequences over every tree and filter
InitScan == Init /\ entry = "editorial"

NextScan == Scan

SpecScan == InitScan /\ [][NextScan]_vars

-----------------------------------------------------------------------------
(* Attribute rewrite: convert_dng_to_exr of dng_to_exr_full_metadata.py *)

RawPrefix == <<"r","a","w",":">>
OiioPrefix == <<"o","i","i","o",":">>
DngPrefix == <<"D","N","G",":">>
CompressionName == <<"c","o","m","p","r","e","s","s","i","o","n">>

\* s.replace(a, b) for one-character a and b: every occurrence is replaced
Replace(s, a, b) == [i \in 1..Len(s) |-> IF s[i] = a THEN b ELSE s[i]]

\* the name an attribute is written under
new_name(attrib_name) ==
    IF StartsWith(attrib_name, RawPrefix)
    THEN DngPrefix \o Replace(attrib_name, ":", "_")
    ELSE IF StartsWith(attrib_name, OiioPrefix)
    THEN DngPrefix \o Replace(attrib_name, ":", "_")
    ELSE attrib_name

\* ImageSpec.attribute(name, type, value): an attribute of that name is
\* replaced in place, otherwise the attribute is appended
SetAttribute(attribs, name, type, value) ==
    LET a == [name |-> name, type |-> type, value |-> value]
    IN  IF \E i \in 1..Len(attribs) : attribs[i].name = name
        THEN [i \in 1..Len(attribs) |->
                IF attribs[i].name = name THEN a ELSE attribs[i]]
        ELSE Append(attribs, a)

\* f"dwaa:{compression_level}"
DwaaSetting(level) == <<"dwaa", level>>

\* out_spec = oiio.ImageSpec(in_spec), then the compression attribute
NewOutSpec(attribs, level) ==
    SetAttribute(attribs, CompressionName, "string", DwaaSetting(level))

\* input_buf.has_error
ReadError ==
    /\ rpc = "read"
    /\ rpc' = "failed"
    /\ UNCHANGED <<in_attribs, out_attribs, compression_level, k, batchVars>>

CreateOutSpec ==
    /\ rpc = "read"
    /\ out_attribs' = NewOutSpec(in_attribs, compression_level)
    /\ k' = 0
    /\ rpc' = "copy"
    /\ UNCHANGED <<in_attribs, compression_level, batchVars>>

\* one iteration of the loop over in_spec.extra_attribs
CopyAttribute ==
    /\ rpc = "copy"
    /\ k < Len(in_attribs)
    /\ LET attrib == in_attribs[k + 1]
       IN  out_attribs' = SetAttribute(out_attribs, new_name(attrib.name),
                                       attrib.type, attrib.value)
    /\ k' = k + 1
    /\ UNCHANGED <<in_attribs, compression_level, rpc, batchVars>>

\* output_buf.write: True, or False with a write error
WriteOutput ==
    /\ rpc = "copy"
    /\ k = Len(in_attribs)
    /\ \E ok \in BOOLEAN : rpc' = IF ok THEN "done" ELSE "failed"
    /\ UNCHANGED <<in_attribs, out_attribs, compression_level, k, batchVars>>

\* the attribute names a source frame is drawn from
AttrNames ==
    { <<"r","a","w",":","a">>,
      <<"r","a","w",":","a",":","b">>,
      <<"r","a","w",":","a","_","b">>,
      <<"o","i","i","o",":","c">>,
      <<"D","N","G",":","r","a","w","_","a">>,
      <<"r","a","w","b">>,
      <<"m","a","k","e">>,
      CompressionName }

\* the typed values a source attribute is drawn from
TypedValues ==
    { [type |-> "int", value |-> <<"v", 1>>],
      [type |-> "string", value |-> <<"v", 2>>] }

Attribs ==
    { [name |-> n, type |-> tv.type, value |-> tv.value] :
        n \in AttrNames, tv \in TypedValues }

\* attribute sets of at most MaxAttrs attributes with pairwise distinct names
AttribSets ==
    { a \in UNION { [1..n -> Attribs] : n \in 0..MaxAttrs } :
        \A i, j \in 1..Len(a) : i # j => a[i].name # a[j].name }

\* the compression levels main accepts (30..100); 45 is the default
Levels == {30, 45}

BatchIdle ==
    /\ entry = "convert"
    /\ pc = "idle"
    /\ tree = <<>>
    /\ shot_filter = <<>>
    /\ dry_run = FALSE
    /\ sequences = <<>>
    /\ idx = 0
    /\ success_count = 0
    /\ fail_count = 0
    /\ temp_dirs = {}
    /\ outputs = {}
    /\ calls = <<>>
    /\ dng_files = 0
    /\ processed = 0
    /\ failed = 0
    /\ exit_status = -1

InitRewrite ==
    /\ BatchIdle
    /\ in_attribs \in AttribSets
    /\ compression_level \in Levels
    /\ out_attribs = <<>>
    /\ k = 0
    /\ rpc = "read"

NextRewrite ==
    \/ ReadError
    \/ CreateOutSpec
    \/ CopyAttribute
    \/ WriteOutput

SpecRewrite == InitRewrite /\ [][NextRewrite]_vars

-----------------------------------------------------------------------------
(* Claims about the attribute rewrite *)

Colliding(name) == StartsWith(name, RawPrefix) \/ StartsWith(name, OiioPrefix)

HasAttribute(attribs, name, type, value) ==
    \E j \in 1..Len(attribs) :
        /\ attribs[j].name = name
        /\ attribs[j].type = type
        /\ attribs[j].value = value

HasName(attribs, name) == \E j \in 1..Len(attribs) : attribs[j].name = name

\* C1: when the rewrite is done, every source attribute whose name begins
\* with "raw:" or "oiio:" is in the output under "DNG:" + name with ":"
\* replaced by "_", with the same type and value, and the output holds no
\* attribute of the original name.
C1_RenamedAndOriginalGone ==
    rpc = "done" =>
        \A i \in 1..Len(in_attribs) :
            Colliding(in_attribs[i].name) =>
                /\ HasAttribute(out_attribs,
                                DngPrefix \o Replace(in_attribs[i].name, ":", "_"),
                                in_attribs[i].type, in_attribs[i].value)
                /\ ~HasName(out_attribs, in_attribs[i].name)

\* C2: when the rewrite is done, no two distinct source names were written
\* under the same output name, and every source attribute's type and value
\* is in the output under the name it was written under.
C2_NoTwoNamesCollide ==
    rpc = "done" =>
        /\ \A i, j \in 1..Len(in_attribs) :
              i # j => new_name(in_attribs[i].name) # new_name(in_attribs[j].name)
        /\ \A i \in 1..Len(in_attribs) :
              HasAttribute(out_attribs, new_name(in_attribs[i].name),
                           in_attribs[i].type, in_attribs[i].value)

\* C3: when the rewrite is done, the output holds exactly one attribute
\* named "compression" and its value is "dwaa:<compression_level>", also
\* when the source carries an attribute named "compression".
C3_CompressionIsRequested ==
    rpc = "done" =>
        /\ Cardinality({ j \in 1..Len(out_attribs) :
                            out_attribs[j].name = CompressionName }) = 1
        /\ \A j \in 1..Len(out_attribs) :
              out_attribs[j].name = CompressionName =>
                  out_attribs[j].value = DwaaSetting(compression_level)

-----------------------------------------------------------------------------
(* Claims about the batch runs *)

\* number of items the entry point counted as failed
FailedItems == IF entry = "archival" THEN failed ELSE fail_count

\* number of items the entry point counted as succeeded
SucceededItems == IF entry = "archival" THEN processed ELSE success_count

\* number of items the entry point discovered
DiscoveredItems == IF entry = "archival" THEN dng_files ELSE Len(sequences)

\* C4: once the batch loop has run over the discovered items and the
\* process has exited, the exit status is 0 exactly when no item failed.
C4_ExitStatusReflectsFailures ==
    pc = "done" => (exit_status = 0 <=> FailedItems = 0)

\* C5: no failure of an item leaves the batch loop: the run never ends by
\* an exception, and when it ends every discovered item was attempted once
\* and was counted as succeeded or as failed.
C5_FailuresStayInsideLoop ==
    /\ pc # "crashed"
    /\ pc = "done" =>
          /\ Len(calls) = DiscoveredItems
          /\ \A i \in 1..Len(calls) : calls[i].result \in {"ok", "failed"}
          /\ SucceededItems + FailedItems = DiscoveredItems

\* the anchor-frame file of a Sequence: head, 1000 re-padded to the
\* Sequence's padding, extension, in the Sequence's directory
AnchorFile(seq) ==
    [dir |-> seq.dir, name |-> seq.head \o ZeroPad(1000, seq.pad) \o seq.ext]

\* C6: an item whose anchor-frame file does not exist is failed without any
\* encode: no color tool, no encoder, no scratch directory, in dry-run mode
\* too, and the run goes on with the batch loop.
C6_MissingAnchorFailsWithoutEncode ==
    entry = "editorial" =>
        \A i \in 1..Len(calls) :
            ~Exists(tree, AnchorFile(sequences[i])) =>
                /\ calls[i].color = 0
                /\ calls[i].ffmpeg = 0
                /\ ~calls[i].temp
                /\ i \notin temp_dirs
                /\ calls[i].result \in {"pending", "failed"}
                /\ calls[i].result = "pending" => (pc = "slate" /\ i = idx)
                /\ (calls[i].result = "failed" /\ i = idx) => pc \in {"loop", "done"}

\* an item without its anchor frame was failed in dry-run mode and the next
\* item was entered
C6_Witness ==
    /\ entry = "editorial"
    /\ dry_run
    /\ \E i \in 1..Len(calls) :
          /\ ~Exists(tree, AnchorFile(sequences[i]))
          /\ calls[i].result = "failed"
          /\ i < Len(calls)

\* C7: no scratch directory exists outside the two stages of the item that
\* created it: none when an item has returned or raised, when the next item
\* starts, or when the batch has ended.
C7_ScratchRemoved ==
    /\ pc \in {"color", "encode"} => temp_dirs \subseteq {idx}
    /\ pc \notin {"color", "encode"} => temp_dirs = {}

\* every exit path after creation has been taken by some item of the run:
\* here an exception, after an item that failed in a stage
C7_Witness ==
    /\ pc = "crashed"
    /\ calls[idx].temp
    /\ calls[idx].color = 1
    /\ \E i \in 1..(idx - 1) : calls[i].temp /\ calls[i].result = "failed"

\* the accepted files of dirpath that share head, extension and padding
Group(dirpath, key) ==
    { t \in { tree[i] : i \in 1..Len(tree) } :
        /\ t.dir = dirpath
        /\ Accepted(t.name, shot_filter)
        /\ KeyOf(t.name) = key }

\* the (directory, key) classes of the accepted files of the tree
Classes ==
    { <<tree[i].dir, KeyOf(tree[i].name)>> :
        i \in { j \in 1..Len(tree) : Accepted(tree[j].name, shot_filter) } }

Frames(dirpath, key) == { FrameOf(t.name) : t \in Group(dirpath, key) }

\* C8: after the scan, every set of matching files of one directory that
\* share head, extension and padding has exactly one Sequence record; its
\* count is the number of files and its start and end are the lowest and
\* highest frame number present; no other record is emitted.
C8_OneRecordPerGroup ==
    (entry = "editorial" /\ pc # "scan") =>
        /\ Len(sequences) = Cardinality(Classes)
        /\ \A c \in Classes :
              LET recs == { i \in 1..Len(sequences) :
                              /\ sequences[i].dir = c[1]
                              /\ sequences[i].head = c[2][1]
                              /\ sequences[i].ext = c[2][2]
                              /\ sequences[i].pad = c[2][3] }
              IN  /\ Cardinality(recs) = 1
                  /\ \A i \in recs :
                        /\ sequences[i].count = Cardinality(Group(c[1], c[2]))
                        /\ sequences[i].start \in Frames(c[1], c[2])
                        /\ sequences[i].end \in Frames(c[1], c[2])
                        /\ \A n \in Frames(c[1], c[2]) :
                              sequences[i].start <= n /\ n <= sequences[i].end
                        /\ sequences[i].start <= sequences[i].end
                        /\ sequences[i].count >= 1

\* a Sequence of several files was found in a directory that lists a higher
\* frame before a lower one
C8_Witness ==
    /\ entry = "editorial"
    /\ pc # "scan"
    /\ \E i \in 1..Len(sequences) :
          /\ sequences[i].count >= 2
          /\ \E a, b \in 1..Len(tree) :
                /\ a < b
                /\ tree[a] \in Group(sequences[i].dir,
                        <<sequences[i].head, sequences[i].ext, sequences[i].pad>>)
                /\ tree[b] \in Group(sequences[i].dir,
                        <<sequences[i].head, sequences[i].ext, sequences[i].pad>>)
                /\ FrameOf(tree[a].name) > FrameOf(tree[b].name)

\* C9: per item the color tool runs at most once, the encoder at most once
\* and only after the color tool exited 0; a non-zero color exit fails the
\* item without the encoder; outside dry-run an item succeeded only if both
\* tools exited 0 and its output file exists.
C9_StagesInOrder ==
    entry = "editorial" =>
        \A i \in 1..Len(calls) :
            /\ calls[i].color <= 1
            /\ calls[i].ffmpeg <= 1
            /\ calls[i].ffmpeg = 1 => (calls[i].color = 1 /\ calls[i].color_rc = 0)
            /\ (calls[i].color = 1 /\ calls[i].color_rc # 0) =>
                  (calls[i].ffmpeg = 0 /\ calls[i].result = "failed")
            /\ (calls[i].result = "ok" /\ ~dry_run) =>
                  /\ calls[i].color_rc = 0
                  /\ calls[i].ffmpeg_rc = 0
                  /\ shot_name(sequences[i]) \in outputs

\* one item succeeded through both stages and another failed in the color
\* stage
C9_Witness ==
    /\ entry = "editorial"
    /\ ~dry_run
    /\ \E i, j \in 1..Len(calls) :
          /\ calls[i].result = "ok" /\ calls[i].ffmpeg = 1
          /\ calls[j].color = 1 /\ calls[j].color_rc # 0

\* C10: a Sequence that passed the anchor check has frame 1000 among the
\* files grouped into it, and so start <= 1000 <= end.
C10_AnchorIsMember ==
    entry = "editorial" =>
        \A i \in 1..Len(calls) :
            calls[i].passed =>
                /\ AnchorFile(sequences[i]) \in
                      Group(sequences[i].dir,
                            <<sequences[i].head, sequences[i].ext, sequences[i].pad>>)
                /\ sequences[i].start <= 1000
                /\ 1000 <= sequences[i].end

\* C11: within one editorial run no two distinct discovered Sequences are
\* handed to the encoder with the same output path, so the output file of an
\* item counted as succeeded is never written again by a later item.
C11_OutputPathsDistinct ==
    entry = "editorial" =>
        \A i, j \in 1..Len(calls) :
            (/\ i < j
             /\ sequences[i] # sequences[j]
             /\ calls[i].ffmpeg = 1
             /\ calls[i].result = "ok"
             /\ calls[j].ffmpeg = 1) =>
                shot_name(sequences[i]) # shot_name(sequences[j])

====
